---- MODULE Spec2Model ----
(***************************************************************************)
(* FAQ retrieval-answering pipeline of workflows/faq_agent/faq_processor.py *)
(* (class FAQProcessor): the knowledge-base files, the vector index built   *)
(* from them, and answer_question requests running as coroutines that can   *)
(* be interleaved with add_faq_entry.                                       *)
(*                                                                          *)
(* Text.  A Python string is modelled by the sequence of its '.'-separated  *)
(* pieces, i.e. by the value of s.split("."): never empty, one piece more   *)
(* than the string has '.' characters.  A piece records                     *)
(*   txt   - the piece with its outer whitespace removed (piece.strip()),   *)
(*   q     - whether the piece contains a '?' character,                    *)
(*   words - how many whitespace-separated words of the string lie in it.   *)
(* Confidence values are held in hundredths (30 is Python's 0.3).           *)
(***************************************************************************)
EXTENDS Integers, Sequences, FiniteSets, TLC

\* ------------------------------------------------------------------ bounds
\* add_faq_entry calls made in one behaviour
MaxAdds == 1
\* largest context word count fed to _calculate_confidence on its own
MaxContextWords == 1100
\* largest question word count fed to _calculate_confidence on its own
MaxQuestionWords == 14
\* unread emails in the inbox process_emails finds
MaxInbox == 2

\* most audio files in one batch
MaxBatch == 2

\* ------------------------------------------------------------------- text
Piece(t, hasQ, w) == [txt |-> t, q |-> hasQ, words |-> w]

\* the empty string: "".split(".") is [""]
EmptyText == <<Piece("", FALSE, 0)>>

\* bool(s) of a Python string: false only for ""
IsEmpty(s) == s = EmptyText

\* the piece made of the end of one string and the start of the next
Glue(a, sep, b) ==
    Piece(IF a.txt = "" THEN b.txt ELSE IF b.txt = "" THEN a.txt
                                                      ELSE a.txt \o sep \o b.txt,
          a.q \/ b.q, a.words + b.words)

\* s + sep + t, where sep is whitespace (it holds no '.', '?' or word)
Concat(s, sep, t) ==
    SubSeq(s, 1, Len(s) - 1) \o <<Glue(s[Len(s)], sep, t[1])>> \o SubSeq(t, 2, Len(t))

RECURSIVE SumWords(_)
SumWords(s) == IF s = <<>> THEN 0 ELSE s[1].words + SumWords(Tail(s))

\* len(s.split())
WordCount(s) == SumWords(s)

\* "?" in s
HasQuestionMark(s) == \E i \in 1..Len(s) : s[i].q

\* a string of whitespace only: no word, no '.', yet not the empty string
BlankText == <<Piece(" ", FALSE, 0)>>

\* what a remote completion returns: a string that may carry leading and
\* trailing whitespace (pad) around its text
Raw(padded, s) == [pad |-> padded, text |-> s]

\* s.strip() of a completion's output
Strip(raw) == raw.text

RECURSIVE JoinTexts(_, _)
\* sep.join(parts)
JoinTexts(parts, sep) ==
    IF parts = <<>> THEN EmptyText
    ELSE IF Len(parts) = 1 THEN parts[1]
    ELSE Concat(parts[1], sep, JoinTexts(Tail(parts), sep))

\* --------------------------------------------------------- fixed strings
\* "No knowledge base available."
NoKnowledgeBase == <<Piece("No knowledge base available", FALSE, 4), Piece("", FALSE, 0)>>

\* "Error retrieving relevant information."
RetrievalError == <<Piece("Error retrieving relevant information", FALSE, 4), Piece("", FALSE, 0)>>

\* the apology of the failed result
Apology ==
    << Piece("I apologize, but I'm having trouble processing your question", FALSE, 9),
       Piece("Please contact our support team for assistance", FALSE, 7),
       Piece("", FALSE, 0) >>

\* ------------------------------------------------- _calculate_confidence
\* Python floats in fixed point: the unrounded base is held in units of 1e-5
\* (0.5 is 50000), the result in hundredths.  (context_length / 1000) * 0.4 is
\* 40 units per word.  round(x, 2) of the doubles this function produces goes
\* to the nearest hundredth, and at the only exact halves (0.495, 0.585,
\* 0.675, 0.765: 125, 375, 625, 875 context words and a long question) the
\* double lies just above the half, so the half goes up.
Min(a, b) == IF a <= b THEN a ELSE b

Round2(base) == (base + 500) \div 1000

DefaultConfidence == 30

ConfidenceCap == 90000

ComplexQuestionWords == 10

\* the cap forgotten
BaseConfidence_Uncapped(context) == 50000 + 40 * WordCount(context)

BaseConfidence(context) == Min(ConfidenceCap, 50000 + 40 * WordCount(context))

\* "at least 10 words" for "more than 10 words"
ComplexityAdjusted_AtLeast(question, base) ==
    IF WordCount(question) >= ComplexQuestionWords THEN (base * 9) \div 10 ELSE base

\* the adjustment forgotten
ComplexityAdjusted_Never(question, base) == base

ComplexityAdjusted(question, base) ==
    IF WordCount(question) > ComplexQuestionWords THEN (base * 9) \div 10 ELSE base

\* the default of the missing context forgotten
_calculate_confidence_NoDefault(question, context) ==
    Round2(ComplexityAdjusted(question, BaseConfidence(context)))

_calculate_confidence(question, context) ==
    IF IsEmpty(context) \/ context = NoKnowledgeBase
    THEN DefaultConfidence
    ELSE Round2(ComplexityAdjusted(question, BaseConfidence(context)))

\* --------------------------------------------------------- knowledge base
\* The three files load_knowledge_base reads, in the order of faq_files.
FaqFile == "data/knowledge_base/faq.txt"

ProductsFile == "data/knowledge_base/products.txt"

SupportFile == "data/knowledge_base/support.txt"

faq_files == <<FaqFile, ProductsFile, SupportFile>>

\* a file that does not exist (os.path.exists is false)
Missing == [exists |-> FALSE, blocks |-> <<>>]

\* a file that exists, as the sequence of its blocks
File(blocks) == [exists |-> TRUE, blocks |-> blocks]

\* The blocks of a file are its blank-line separated parts, the shape
\* add_faq_entry writes ("...\n\n" after every entry).
HoursEntry ==
    << Piece("Q: What are your business hours?\nA: Monday through Friday, 9 AM to 5 PM",
             TRUE, 15),
       Piece("", FALSE, 0) >>

ProductsBlock ==
    << Piece("Our plans are Basic and Pro", FALSE, 6),
       Piece("Pro adds priority support", FALSE, 4),
       Piece("", FALSE, 0) >>

SupportBlock ==
    << Piece("Is it down?", TRUE, 3),
       Piece("Why?", TRUE, 1),
       Piece("Did you restart the router?", TRUE, 5),
       Piece("How do I reset my password? Use the account page", TRUE, 10),
       Piece("Still stuck? Call the support line", TRUE, 6),
       Piece("", FALSE, 0) >>

BillingBlock ==
    << Piece("Invoices are sent monthly", FALSE, 4),
       Piece("Can I pay by card? Yes", TRUE, 6),
       Piece("", FALSE, 0) >>

\* what the three files can hold when the processor is constructed
KnowledgeBase(faq, products, support) ==
    [f \in {FaqFile, ProductsFile, SupportFile} |->
        IF f = FaqFile THEN faq ELSE IF f = ProductsFile THEN products ELSE support]

InitialFiles ==
    { KnowledgeBase(Missing, Missing, Missing),
      KnowledgeBase(File(<<HoursEntry>>), Missing, Missing),
      KnowledgeBase(File(<<>>), File(<<ProductsBlock>>), Missing),
      KnowledgeBase(File(<<HoursEntry>>), File(<<ProductsBlock>>),
                    File(<<SupportBlock, BillingBlock>>)) }

\* the literal pieces of the entry template
Lit(t, w) == <<Piece(t, FALSE, w)>>

\* f"Q: {question}\nA: {answer}\nCategory: {category}\n\n", without the blank
\* line that ends the block
FaqEntry(question, answer, category) ==
    Concat(Concat(Concat(Concat(Concat(Lit("Q:", 1), " ", question),
                                "\n", Lit("A:", 1)), " ", answer),
                  "\n", Lit("Category:", 1)), " ", category)

\* open(faq_file, "a") and write: the file is created when it is missing
AppendEntry(fs, entry) ==
    [fs EXCEPT ![FaqFile] = File(Append(@.blocks, entry))]

\* What can go wrong in one load_knowledge_base: os.makedirs raises, TextLoader
\* raises for some files, split_documents raises, FAISS.from_documents raises
\* (the embedding service).
\* One load meets no fault or one of them.
NoFault == [mkdir |-> FALSE, load |-> {}, split |-> FALSE, embed |-> FALSE]

Faults ==
    {NoFault, [NoFault EXCEPT !.mkdir = TRUE], [NoFault EXCEPT !.split = TRUE],
     [NoFault EXCEPT !.embed = TRUE]}
    \cup {[NoFault EXCEPT !.load = {f}] : f \in {FaqFile, ProductsFile, SupportFile}}

RECURSIVE LoadDocuments(_, _, _)
\* the loop over faq_files: a file that is missing is passed over, a file whose
\* loader raises is logged and passed over, the others give one document each
LoadDocuments(fs, paths, fault) ==
    IF paths = <<>> THEN <<>>
    ELSE LET file_path == Head(paths)
             rest == LoadDocuments(fs, Tail(paths), fault)
         IN  IF fs[file_path].exists /\ file_path \notin fault.load
             THEN <<fs[file_path].blocks>> \o rest
             ELSE rest

RECURSIVE SplitDocuments(_)
\* text_splitter.split_documents: the chunks of every document, in document
\* order; a block is one chunk (blocks are the splitter's first unit, "\n\n",
\* and the model's blocks stand for chunk-sized ones), an empty document gives
\* no chunk
SplitDocuments(documents) ==
    IF documents = <<>> THEN <<>>
    ELSE Head(documents) \o SplitDocuments(Tail(documents))

\* self.vectorstore = None
None == [id |-> 0, chunks |-> <<>>]

\* The value load_knowledge_base leaves in self.vectorstore; id names the
\* index object (every FAISS.from_documents makes a new one).  An empty list of
\* chunks makes FAISS.from_documents raise.
BuildIndex(fs, fault, id) ==
    LET documents == LoadDocuments(fs, faq_files, fault)
        splits == SplitDocuments(documents)
    IN  IF fault.mkdir THEN None
        ELSE IF documents = <<>> THEN None
        ELSE IF fault.split \/ fault.embed \/ splits = <<>> THEN None
        ELSE [id |-> id, chunks |-> splits]

\* ------------------------------------------------------ similarity search
ChunkK == 3

RelatedK == 5

Reverse(s) == [i \in 1..Len(s) |-> s[Len(s) + 1 - i]]

Rotate(s, n) == [i \in 1..Len(s) |-> s[((i + n - 1) % Len(s)) + 1]]

\* The embedding distances are the remote service's: any chunk can be the
\* nearest, and the others follow it in index order or in the reverse order.
Rankings(chunks) ==
    {Rotate(chunks, n) : n \in 0..(Len(chunks) - 1)}
    \cup {Rotate(Reverse(chunks), n) : n \in 0..(Len(chunks) - 1)}

\* one chunk too few
SimilaritySearch_OneShort(index, k) ==
    { SubSeq(ranked, 1, Min(k - 1, Len(ranked))) : ranked \in Rankings(index.chunks) }

\* vectorstore.similarity_search(question, k) when it returns: the k nearest
\* chunks, all of them when the index holds fewer
SimilaritySearch(index, k) ==
    { SubSeq(ranked, 1, Min(k, Len(ranked))) : ranked \in Rankings(index.chunks) }

\* One similarity_search call: it returns docs, or it raises.  Without an
\* index no call is made.
SearchOutcomes(vs, k) ==
    IF vs = None THEN {[ok |-> TRUE, docs |-> <<>>]}
    ELSE {[ok |-> TRUE, docs |-> d] : d \in SimilaritySearch(vs, k)}
         \cup {[ok |-> FALSE, docs |-> <<>>]}

\* -------------------------------------------------- _get_relevant_context
\* nothing substituted for the missing index
_get_relevant_context_NoPlaceholder(vs, search) ==
    IF vs = None THEN EmptyText
    ELSE IF ~search.ok THEN RetrievalError
    ELSE JoinTexts(search.docs, "\n\n")

_get_relevant_context(vs, search) ==
    IF vs = None THEN NoKnowledgeBase
    ELSE IF ~search.ok THEN RetrievalError
    ELSE JoinTexts(search.docs, "\n\n")

\* ------------------------------------------------- _get_related_questions
MaxRelated == 3

MinSentenceLen == 10

RECURSIVE ScanSentences_AnySentence(_, _)
\* the '?' test forgotten
ScanSentences_AnySentence(sentences, related) ==
    IF sentences = <<>> THEN related
    ELSE LET sentence == Head(sentences)
         IN  IF Len(sentence.txt) > MinSentenceLen
             THEN LET more == Append(related, sentence)
                  IN  IF Len(more) >= MaxRelated THEN more
                      ELSE ScanSentences_AnySentence(Tail(sentences), more)
             ELSE ScanSentences_AnySentence(Tail(sentences), related)

RECURSIVE ScanSentences(_, _)
\* the loop over content.split("."): a sentence with a '?' whose stripped
\* length exceeds 10 is appended, stripped; the loop is left once that makes
\* three
ScanSentences(sentences, related) ==
    IF sentences = <<>> THEN related
    ELSE LET sentence == Head(sentences)
         IN  IF sentence.q /\ Len(sentence.txt) > MinSentenceLen
             THEN LET more == Append(related, sentence)
                  IN  IF Len(more) >= MaxRelated THEN more
                      ELSE ScanSentences(Tail(sentences), more)
             ELSE ScanSentences(Tail(sentences), related)

RECURSIVE ScanDocs(_, _)
\* the loop over docs; the break above leaves the inner loop only
ScanDocs(docs, related) ==
    IF docs = <<>> THEN related
    ELSE LET content == Head(docs)
         IN  IF HasQuestionMark(content)
             THEN ScanDocs(Tail(docs), ScanSentences(content, related))
             ELSE ScanDocs(Tail(docs), related)

\* related[-3:]
FirstThree_LastThree(related) ==
    SubSeq(related, Len(related) + 1 - Min(MaxRelated, Len(related)), Len(related))

\* related[:3]
FirstThree(related) == SubSeq(related, 1, Min(MaxRelated, Len(related)))

\* a related question is one stripped sentence, held as its piece
_get_related_questions(vs, search) ==
    IF vs = None THEN <<>>
    ELSE IF ~search.ok THEN <<>>
    ELSE FirstThree(ScanDocs(search.docs, <<>>))

\* ------------------------------------------------------------- requests
\* the coroutines of answer_question that can be in flight
Requests == {"r1"}

ShortQuestion == <<Piece("When are you open?", TRUE, 4)>>

LongQuestion ==
    << Piece("I moved last week and my router shows a red light, how do I reset it?",
             TRUE, 16) >>

HoursQuestion == <<Piece("What are your business hours?", TRUE, 5)>>

Questions == {ShortQuestion, LongQuestion}

CallerContext == <<Piece("I am a Pro customer", FALSE, 5), Piece("", FALSE, 0)>>

\* a caller context that does not end its last sentence
OrderContext == <<Piece("My order number is 1234", FALSE, 5)>>

Contexts == {EmptyText, CallerContext, OrderContext}

\* what the completion service answers to the classification prompt
ClassifierOutputs == {Raw(TRUE, "Billing")}

\* str.lower() on those
Lower(label) == IF label = "Billing" THEN "billing" ELSE label

\* what the completion service answers to the FAQ prompt
AnswerOutputs ==
    { Raw(TRUE, <<Piece("We are open Monday to Friday", FALSE, 6), Piece("", FALSE, 0)>>) }

\* add_faq_entry's arguments
AddQuestions == {HoursQuestion}

AddAnswers ==
    { <<Piece("Yes", FALSE, 1), Piece("Orders ship worldwide? Within 5 days", TRUE, 6),
        Piece("", FALSE, 0)>>,
      <<Piece("Monday through Friday, 9 AM to 5 PM", FALSE, 8)>> }

DefaultCategory == <<Piece("general", FALSE, 1)>>

FAQResponse(answer, confidence, source, related_questions) ==
    [answer |-> answer, confidence |-> confidence, source |-> source,
     related_questions |-> related_questions]

\* no response yet
NoResponse == FAQResponse(EmptyText, 0 - 1, "", <<>>)

\* the response of the except branch of answer_question
ErrorResponse == FAQResponse(Apology, 0, "error", <<>>)

\* self.vectorstore has not been read
NotRead == [id |-> 0 - 1, chunks |-> <<>>]

\* A request: where the coroutine stands (pc), its arguments and locals, the
\* steps of it in which a remote call raised, the values of self.vectorstore
\* its two searches read, how many calls of the completion service and of
\* similarity_search it has made, and what it returned.
NewRequest(question, context) ==
    [pc |-> "received", question |-> question, context |-> context,
     question_type |-> "", relevant_context |-> EmptyText,
     docs |-> <<>>, full_context |-> EmptyText, answer |-> Raw(FALSE, EmptyText),
     raised |-> {}, retrieved_from |-> NotRead, related_from |-> NotRead,
     completions |-> 0, searches |-> 0, response |-> NoResponse]

IdleRequest == [NewRequest(EmptyText, EmptyText) EXCEPT !.pc = "idle"]

VARIABLES
    files,        \* the three knowledge-base files
    vectorstore,  \* self.vectorstore
    loads,        \* how many indexes have been built (names the next one)
    adds,         \* add_faq_entry calls so far
    last_add,     \* the last add_faq_entry: what it wrote and what it returned
    req,          \* the requests
    probe,        \* a direct call of _calculate_confidence: arguments, result
    load,         \* a load_knowledge_base followed statement by statement
    call          \* the last call of an operation of the other processors

vars == <<files, vectorstore, loads, adds, last_add, req, probe, load, call>>

NoProbe == [question |-> EmptyText, context |-> EmptyText, confidence |-> 0 - 1]

NoAdd == [returned |-> "none", entry |-> EmptyText, question |-> EmptyText]

\* no load_knowledge_base is being followed
NoLoad == [pc |-> "idle", fault |-> NoFault, next |-> 0, documents |-> <<>>,
           splits |-> <<>>, before |-> None, entry |-> EmptyText,
           question |-> EmptyText]

\* no operation of the other processors has been called
NoCall == [op |-> "none", outcome |-> "none", faults |-> {}, input |-> <<>>,
           result |-> <<>>]

\* ------------------------------------------------------------------ Init
\* FAQProcessor.__init__: vectorstore = None, then load_knowledge_base
Init ==
    /\ files \in InitialFiles
    /\ \E fault \in Faults : vectorstore = BuildIndex(files, fault, 1)
    /\ loads = 1
    /\ adds = 0
    /\ last_add = NoAdd
    /\ req = [r \in Requests |-> IdleRequest]
    /\ probe = NoProbe
    /\ load = NoLoad
    /\ call = NoCall

\* ------------------------------------------------------- answer_question
\* a call of answer_question(question, context) starts a coroutine
answer_question(r, question, context) ==
    /\ req[r].pc \in {"idle", "done", "failed"}
    /\ req' = [req EXCEPT ![r] = NewRequest(question, context)]
    /\ UNCHANGED <<files, vectorstore, loads, adds, last_add, probe, load, call>>

\* the label taken as the outcome of the retrieval too
Classified_SkipsRetrieval(rq, out) ==
    [rq EXCEPT !.pc = "retrieved", !.question_type = Lower(Strip(out))]

\* _classify_question: the label, or "general" when the call raises
Classified(rq, out) ==
    [rq EXCEPT !.pc = "classified", !.question_type = Lower(Strip(out)),
               !.completions = @ + 1]

\* the classifier's exception ends the request
ClassifyFailed_Reraises(rq) ==
    [rq EXCEPT !.pc = "failed", !.raised = @ \cup {"classify"},
               !.response = ErrorResponse]

ClassifyFailed(rq) ==
    [rq EXCEPT !.pc = "classified", !.question_type = "general",
               !.raised = @ \cup {"classify"}, !.completions = @ + 1]

_classify_question(r) ==
    /\ req[r].pc = "received"
    /\ \/ \E out \in ClassifierOutputs : req' = [req EXCEPT ![r] = Classified(@, out)]
       \/ req' = [req EXCEPT ![r] = ClassifyFailed(@)]
    /\ UNCHANGED <<files, vectorstore, loads, adds, last_add, probe, load, call>>

\* the retrieved context put first
FullContext_RetrievedFirst(context, relevant_context) ==
    IF IsEmpty(context) THEN relevant_context
    ELSE Concat(relevant_context, "\n\n", context)

\* f"{context}\n\n{relevant_context}" if context else relevant_context
FullContext(context, relevant_context) ==
    IF IsEmpty(context) THEN relevant_context
    ELSE Concat(context, "\n\n", relevant_context)

Retrieved(rq, vs, search) ==
    LET relevant_context == _get_relevant_context(vs, search)
    IN  [rq EXCEPT !.pc = "retrieved",
                   !.relevant_context = relevant_context,
                   !.full_context = FullContext(rq.context, relevant_context),
                   !.docs = search.docs,
                   !.retrieved_from = vs,
                   !.searches = IF vs = None THEN @ ELSE @ + 1,
                   !.raised = IF search.ok THEN @ ELSE @ \cup {"retrieve"}]

\* relevant_context = await self._get_relevant_context(question), full_context
Retrieve(r) ==
    /\ req[r].pc = "classified"
    /\ \E search \in SearchOutcomes(vectorstore, ChunkK) :
           req' = [req EXCEPT ![r] = Retrieved(@, vectorstore, search)]
    /\ UNCHANGED <<files, vectorstore, loads, adds, last_add, probe, load, call>>

Answered(rq, out) ==
    [rq EXCEPT !.pc = "answered", !.answer = out, !.completions = @ + 1]

\* the except branch returning what the request had got so far
Failed_Partial(rq) ==
    [rq EXCEPT !.pc = "failed", !.raised = @ \cup {"complete"},
               !.response = FAQResponse(Apology, 0, "knowledge_base",
                                        <<rq.question[1]>>)]

\* the except branch returning the default confidence
Failed_DefaultConfidence(rq) ==
    [rq EXCEPT !.pc = "failed", !.raised = @ \cup {"complete"},
               !.response = FAQResponse(Apology, DefaultConfidence, "error", <<>>)]

\* the except branch keeps the source of an answered request
Failed_SourceKept(rq) ==
    [rq EXCEPT !.pc = "failed", !.raised = @ \cup {"complete"},
               !.completions = @ + 1,
               !.response = FAQResponse(Apology, 0, "knowledge_base", <<>>)]

\* the except branch looks for related questions before it returns
Failed_StillSearches(rq) ==
    [rq EXCEPT !.pc = "failed", !.raised = @ \cup {"complete"},
               !.completions = @ + 1, !.searches = @ + 1,
               !.response = ErrorResponse]

\* the except branch of answer_question
Failed(rq) ==
    [rq EXCEPT !.pc = "failed", !.raised = @ \cup {"complete"},
               !.completions = @ + 1, !.response = ErrorResponse]

\* answer = await answer_chain.ainvoke(...): the completion returns or raises
Complete(r) ==
    /\ req[r].pc = "retrieved"
    /\ \/ \E out \in AnswerOutputs : req' = [req EXCEPT ![r] = Answered(@, out)]
       \/ req' = [req EXCEPT ![r] = Failed(@)]
    /\ UNCHANGED <<files, vectorstore, loads, adds, last_add, probe, load, call>>

\* the label is returned as the source
Done_LabelAsSource(rq, vs, search) ==
    [rq EXCEPT !.pc = "done",
               !.related_from = vs,
               !.searches = IF vs = None THEN @ ELSE @ + 1,
               !.raised = IF search.ok THEN @ ELSE @ \cup {"related"},
               !.response =
                   FAQResponse(Strip(rq.answer),
                               _calculate_confidence(rq.question, rq.relevant_context),
                               rq.question_type,
                               _get_related_questions(vs, search))]

\* the confidence computed from the context given to the prompt
Done_ConfidenceFromPrompt(rq, vs, search) ==
    [rq EXCEPT !.pc = "done",
               !.related_from = vs,
               !.searches = IF vs = None THEN @ ELSE @ + 1,
               !.raised = IF search.ok THEN @ ELSE @ \cup {"related"},
               !.response =
                   FAQResponse(Strip(rq.answer),
                               _calculate_confidence(rq.question, rq.full_context),
                               "knowledge_base",
                               _get_related_questions(vs, search))]

\* the request is begun again instead of returning
Done_StartsAgain(rq, vs, search) == NewRequest(rq.question, rq.context)

Done(rq, vs, search) ==
    [rq EXCEPT !.pc = "done",
               !.related_from = vs,
               !.searches = IF vs = None THEN @ ELSE @ + 1,
               !.raised = IF search.ok THEN @ ELSE @ \cup {"related"},
               !.response =
                   FAQResponse(Strip(rq.answer),
                               _calculate_confidence(rq.question, rq.relevant_context),
                               "knowledge_base",
                               _get_related_questions(vs, search))]

\* a related-questions search that raises drops the index
Finish_DropsIndex(r) ==
    /\ req[r].pc = "answered"
    /\ \E search \in SearchOutcomes(vectorstore, RelatedK) :
           /\ req' = [req EXCEPT ![r] = Done(@, vectorstore, search)]
           /\ vectorstore' = IF search.ok THEN vectorstore ELSE None
    /\ UNCHANGED <<files, loads, adds, last_add, probe, load, call>>

\* confidence, related questions and the return of the FAQResponse
Finish(r) ==
    /\ req[r].pc = "answered"
    /\ \E search \in SearchOutcomes(vectorstore, RelatedK) :
           req' = [req EXCEPT ![r] = Done(@, vectorstore, search)]
    /\ UNCHANGED <<files, vectorstore, loads, adds, last_add, probe, load, call>>

\* ---------------------------------------------------------- add_faq_entry
\* The write succeeds: the entry is appended, the knowledge base is reloaded
\* (load_knowledge_base raises nothing) and True is returned.
AddWritten(question, answer, fault) ==
    LET entry == FaqEntry(question, answer, DefaultCategory)
        written == AppendEntry(files, entry)
    IN  /\ files' = written
        /\ vectorstore' = BuildIndex(written, fault, loads + 1)
        /\ loads' = loads + 1
        /\ last_add' = [returned |-> "True", entry |-> entry, question |-> question]

\* os.makedirs or the write raises: nothing is reloaded, False is returned
AddFailed(question, answer) ==
    /\ last_add' = [returned |-> "False",
                    entry |-> FaqEntry(question, answer, DefaultCategory),
                    question |-> question]
    /\ UNCHANGED <<files, vectorstore, loads>>

add_faq_entry(question, answer) ==
    /\ adds < MaxAdds
    /\ adds' = adds + 1
    /\ \/ \E fault \in Faults : AddWritten(question, answer, fault)
       \/ AddFailed(question, answer)
    /\ UNCHANGED <<req, probe, load, call>>

Next ==
    \/ \E r \in Requests, question \in Questions, context \in Contexts :
           answer_question(r, question, context)
    \/ \E r \in Requests : _classify_question(r)
    \/ \E r \in Requests : Retrieve(r)
    \/ \E r \in Requests : Complete(r)
    \/ \E r \in Requests : Finish(r)
    \/ \E question \in AddQuestions, answer \in AddAnswers :
           add_faq_entry(question, answer)

Spec == Init /\ [][Next]_vars

\* a step of the coroutine of one request
RequestStep(r) ==
    _classify_question(r) \/ Retrieve(r) \/ Complete(r) \/ Finish(r)

\* calls of answer_question with one question and no caller context,
\* interleaved with add_faq_entry
NextLive ==
    \/ \E r \in Requests : answer_question(r, ShortQuestion, EmptyText)
    \/ \E r \in Requests : RequestStep(r)
    \/ \E question \in AddQuestions, answer \in AddAnswers :
           add_faq_entry(question, answer)

\* Every remote call a request awaits returns or raises, and the event loop
\* then resumes the coroutine: a request that can take a step takes one.
SpecLive == Init /\ [][NextLive]_vars /\ \A r \in Requests : WF_vars(RequestStep(r))

\* ---- load_knowledge_base statement by statement
\* add_faq_entry has appended the entry and calls load_knowledge_base, which
\* will meet the fault chosen here; before is self.vectorstore at that time
BeginLoad(question, answer) ==
    LET entry == FaqEntry(question, answer, DefaultCategory)
    IN  /\ load.pc = "idle"
        /\ adds < MaxAdds
        /\ adds' = adds + 1
        /\ files' = AppendEntry(files, entry)
        /\ \E fault \in Faults :
               load' = [pc |-> "makedirs", fault |-> fault, next |-> 1,
                        documents |-> <<>>, splits |-> <<>>, before |-> vectorstore,
                        entry |-> entry, question |-> question]
        /\ UNCHANGED <<vectorstore, loads, last_add, req, probe, call>>

\* the one assignment to self.vectorstore of a load, after which
\* load_knowledge_base returns and add_faq_entry returns True
EndLoad(vs) ==
    /\ vectorstore' = vs
    /\ loads' = loads + 1
    /\ last_add' = [returned |-> "True", entry |-> load.entry,
                    question |-> load.question]
    /\ load' = NoLoad
    /\ UNCHANGED <<files, adds, req, probe, call>>

\* os.makedirs
MakeDirs ==
    /\ load.pc = "makedirs"
    /\ IF load.fault.mkdir THEN EndLoad(None)
       ELSE /\ load' = [load EXCEPT !.pc = "files"]
            /\ UNCHANGED <<files, vectorstore, loads, adds, last_add, req, probe, call>>

\* a file that is missing or cannot be read ends the loading with nothing
Loaded_MissingAborts(file_path) ==
    IF files[file_path].exists /\ file_path \notin load.fault.load
    THEN Append(load.documents, files[file_path].blocks)
    ELSE <<>>

\* what the loop over faq_files adds to documents for one file
Loaded(file_path) ==
    IF files[file_path].exists /\ file_path \notin load.fault.load
    THEN Append(load.documents, files[file_path].blocks)
    ELSE load.documents

\* the index made of the files read so far is put in place
LoadFile_Publishes ==
    /\ load.pc = "files"
    /\ load.next <= Len(faq_files)
    /\ load' = [load EXCEPT !.documents = Loaded(faq_files[load.next]),
                            !.next = @ + 1]
    /\ vectorstore' = [id |-> loads + 1,
                       chunks |-> SplitDocuments(Loaded(faq_files[load.next]))]
    /\ UNCHANGED <<files, loads, adds, last_add, req, probe, call>>

\* one round of the loop over faq_files
LoadFile ==
    /\ load.pc = "files"
    /\ load.next <= Len(faq_files)
    /\ load' = [load EXCEPT !.documents = Loaded(faq_files[load.next]),
                            !.next = @ + 1]
    /\ UNCHANGED <<files, vectorstore, loads, adds, last_add, req, probe, call>>

\* if documents: text_splitter.split_documents(documents), else None
SplitStep ==
    /\ load.pc = "files"
    /\ load.next > Len(faq_files)
    /\ IF load.documents = <<>> \/ load.fault.split THEN EndLoad(None)
       ELSE /\ load' = [load EXCEPT !.pc = "embed",
                                    !.splits = SplitDocuments(load.documents)]
            /\ UNCHANGED <<files, vectorstore, loads, adds, last_add, req, probe, call>>

\* self.vectorstore = FAISS.from_documents(splits, self.embeddings)
Embed ==
    /\ load.pc = "embed"
    /\ IF load.fault.embed \/ load.splits = <<>> THEN EndLoad(None)
       ELSE EndLoad([id |-> loads + 1, chunks |-> load.splits])

NextReload ==
    \/ \E question \in AddQuestions, answer \in AddAnswers : BeginLoad(question, answer)
    \/ MakeDirs
    \/ LoadFile
    \/ SplitStep
    \/ Embed
    \/ \E r \in Requests : answer_question(r, ShortQuestion, EmptyText)
    \/ \E r \in Requests : _classify_question(r)
    \/ \E r \in Requests : Retrieve(r)
    \/ \E r \in Requests : Complete(r)
    \/ \E r \in Requests : Finish(r)

SpecReload == Init /\ [][NextReload]_vars

\* ---- requests running side by side, no add_faq_entry
ConcurrentRequests == {"r1", "r2"}

\* the processor is constructed over the whole knowledge base; the embedding
\* service answers, or it is down and no index is built
InitConcurrent ==
    /\ files = KnowledgeBase(File(<<HoursEntry>>), File(<<ProductsBlock>>),
                             File(<<SupportBlock, BillingBlock>>))
    /\ \E fault \in {NoFault, [NoFault EXCEPT !.embed = TRUE]} :
           vectorstore = BuildIndex(files, fault, 1)
    /\ loads = 1
    /\ adds = 0
    /\ last_add = NoAdd
    /\ req = [r \in ConcurrentRequests |-> IdleRequest]
    /\ probe = NoProbe
    /\ load = NoLoad
    /\ call = NoCall

NextConcurrent ==
    \/ \E r \in ConcurrentRequests, question \in Questions :
           answer_question(r, question, EmptyText)
    \/ \E r \in ConcurrentRequests : _classify_question(r)
    \/ \E r \in ConcurrentRequests : Retrieve(r)
    \/ \E r \in ConcurrentRequests : Complete(r)
    \/ \E r \in ConcurrentRequests : Finish(r)

SpecConcurrent == InitConcurrent /\ [][NextConcurrent]_vars

\* ---- two runs of answer_question that meet the same outcomes
\* The runs r1 and r2 get the same question, read the same index and get the
\* same outcome from each search and from the answer completion; their caller
\* contexts and what the classification call does are chosen freely.
PairClassifierOutputs == ClassifierOutputs \cup {Raw(FALSE, "technical")}

\* what the classification call of one run does: it returns a label or raises
ClassifierOutcomes ==
    {[raised |-> FALSE, out |-> out] : out \in PairClassifierOutputs}
    \cup {[raised |-> TRUE, out |-> Raw(FALSE, "")]}

ClassifyOutcome(rq, outcome) ==
    IF outcome.raised THEN ClassifyFailed(rq) ELSE Classified(rq, outcome.out)

BothAt(pcs) == \A r \in ConcurrentRequests : req[r].pc \in pcs

PairStart ==
    /\ BothAt({"idle", "done", "failed"})
    /\ \E question \in Questions, context1 \in Contexts, context2 \in Contexts :
           req' = [r \in ConcurrentRequests |->
                      NewRequest(question, IF r = "r1" THEN context1 ELSE context2)]
    /\ UNCHANGED <<files, vectorstore, loads, adds, last_add, probe, load, call>>

PairClassify ==
    /\ BothAt({"received"})
    /\ \E outcome1 \in ClassifierOutcomes, outcome2 \in ClassifierOutcomes :
           req' = [r \in ConcurrentRequests |->
                      ClassifyOutcome(req[r], IF r = "r1" THEN outcome1 ELSE outcome2)]
    /\ UNCHANGED <<files, vectorstore, loads, adds, last_add, probe, load, call>>

PairRetrieve ==
    /\ BothAt({"classified"})
    /\ \E search \in SearchOutcomes(vectorstore, ChunkK) :
           req' = [r \in ConcurrentRequests |-> Retrieved(req[r], vectorstore, search)]
    /\ UNCHANGED <<files, vectorstore, loads, adds, last_add, probe, load, call>>

PairComplete ==
    /\ BothAt({"retrieved"})
    /\ \/ \E out \in AnswerOutputs :
              req' = [r \in ConcurrentRequests |-> Answered(req[r], out)]
       \/ req' = [r \in ConcurrentRequests |-> Failed(req[r])]
    /\ UNCHANGED <<files, vectorstore, loads, adds, last_add, probe, load, call>>

PairFinish ==
    /\ BothAt({"answered"})
    /\ \E search \in SearchOutcomes(vectorstore, RelatedK) :
           req' = [r \in ConcurrentRequests |-> Done(req[r], vectorstore, search)]
    /\ UNCHANGED <<files, vectorstore, loads, adds, last_add, probe, load, call>>

NextPair == PairStart \/ PairClassify \/ PairRetrieve \/ PairComplete \/ PairFinish

SpecPair == InitConcurrent /\ [][NextPair]_vars

\* ------------------------------------- _calculate_confidence, called alone
\* a string of n words and no '.': its characters are left open
WordsText(n) == <<Piece("words", FALSE, n)>>

ProbeQuestions == {WordsText(n) : n \in 0..MaxQuestionWords}

\* contexts that are neither empty nor the placeholder
RegularContexts ==
    {WordsText(n) : n \in 1..MaxContextWords} \cup {BlankText, RetrievalError}

ProbeContexts == RegularContexts \cup {EmptyText, NoKnowledgeBase}

InitConfidence ==
    /\ files = KnowledgeBase(Missing, Missing, Missing)
    /\ vectorstore = None
    /\ loads = 1
    /\ adds = 0
    /\ last_add = NoAdd
    /\ req = [r \in Requests |-> IdleRequest]
    /\ load = NoLoad
    /\ call = NoCall
    /\ \E question \in ProbeQuestions, context \in ProbeContexts :
           probe = [NoProbe EXCEPT !.question = question, !.context = context]

\* confidence = self._calculate_confidence(question, context)
CalculateConfidence ==
    /\ probe.confidence < 0
    /\ probe' = [probe EXCEPT
                    !.confidence = _calculate_confidence(probe.question, probe.context)]
    /\ UNCHANGED <<files, vectorstore, loads, adds, last_add, req, load, call>>

NextConfidence == CalculateConfidence

SpecConfidence == InitConfidence /\ [][NextConfidence]_vars

\* ------------------------------------------------- the other processors
\* EmailProcessor, CallProcessor and ElevenLabsVoiceAgent: one call of one of
\* their operations is one action.  Its inputs are the points at which the
\* services it uses fail (faults) and what the completions return; call holds
\* the operation, these inputs, whether it returned or raised, and the value
\* returned.
Return(op, faults, input, result) ==
    [op |-> op, outcome |-> "returned", faults |-> faults, input |-> input,
     result |-> result]

\* the exception leaves the operation
Raise(op, faults, input) ==
    [op |-> op, outcome |-> "raised", faults |-> faults, input |-> input,
     result |-> <<>>]

\* A completion that is asked for JSON: whether json.loads accepts the text,
\* the keys of the object, whether the values have the declared types, and
\* the values (a key that is absent has no value that is read).
JsonOutput(json, keys, typed, data) ==
    [raised |-> FALSE, json |-> json, keys |-> keys, typed |-> typed, data |-> data]

\* the completion call raises
CompletionRaised(data) ==
    [raised |-> TRUE, json |-> FALSE, keys |-> {}, typed |-> FALSE, data |-> data]

\* ---- EmailProcessor
EmailFields ==
    {"category", "priority", "sentiment", "action_required", "suggested_response"}

DefaultClassification ==
    [category |-> "support", priority |-> 3, sentiment |-> "neutral",
     action_required |-> TRUE,
     suggested_response |-> "Please review this email manually."]

SalesClassification ==
    [category |-> "sales", priority |-> 5, sentiment |-> "positive",
     action_required |-> FALSE,
     suggested_response |-> "Thank you for your interest."]

\* what the classification completion can do
ClassificationOutputs ==
    { JsonOutput(TRUE, EmailFields, TRUE, SalesClassification),
      JsonOutput(TRUE, EmailFields \cup {"notes"}, TRUE, SalesClassification),
      JsonOutput(TRUE, EmailFields \ {"priority"}, TRUE, SalesClassification),
      JsonOutput(TRUE, EmailFields, FALSE, SalesClassification),
      JsonOutput(FALSE, {}, FALSE, SalesClassification),
      CompletionRaised(SalesClassification) }

\* the keys _classify_email and draft_reply read from email_data
EmailDataKeys == {"subject", "body", "sender"}

\* email_data as the set of its keys: all of them, or one short
EmailData == {EmailDataKeys, EmailDataKeys \ {"subject"}}

\* the model validates whatever it is given
EmailClassification_NoValidation(keys, typed, data) ==
    [raised |-> FALSE, value |-> data]

\* EmailClassification(**classification_data): every field is required and
\* has a type; other keys are ignored
EmailClassification(keys, typed, data) ==
    IF EmailFields \subseteq keys /\ typed
    THEN [raised |-> FALSE, value |-> data]
    ELSE [raised |-> TRUE, value |-> data]

\* _classify_email: the classification, the default one when reading
\* email_data, the completion, json.loads or the validation raises
_classify_email(email_data, out) ==
    IF ~(EmailDataKeys \subseteq email_data) THEN DefaultClassification
    ELSE IF out.raised \/ ~out.json THEN DefaultClassification
    ELSE LET classification == EmailClassification(out.keys, out.typed, out.data)
         IN  IF classification.raised THEN DefaultClassification
             ELSE classification.value

DraftFallback ==
    "I apologize, but I'm having trouble drafting a response. Please review this email manually."

ReplyOutputs == {Raw(TRUE, "Thank you for reaching out."), Raw(FALSE, "")}

\* the except branch lets the exception through
draft_reply_Reraises(email_data, out, faults, reply) ==
    IF ~(EmailDataKeys \subseteq email_data) \/ "reply" \in faults
    THEN Raise("draft_reply", faults, email_data)
    ELSE Return("draft_reply", faults, email_data, Strip(reply))

\* draft_reply: the stripped reply; the fallback when the reply completion
\* raises or email_data lacks a key the prompt reads
draft_reply(email_data, out, faults, reply) ==
    LET classification == _classify_email(email_data, out)
    IN  IF ~(EmailDataKeys \subseteq email_data) \/ "reply" \in faults
        THEN Return("draft_reply", faults, email_data, DraftFallback)
        ELSE Return("draft_reply", faults, email_data, Strip(reply))

\* the points at which the mail server can fail outside the loop over emails
ServerFaults == {"connect", "login", "select", "search", "close"}

\* int(os.getenv("MAX_EMAILS_PER_BATCH", 10))
MAX_EMAILS_PER_BATCH == 10

\* the batch limits the environment sets: a negative one, a small one, and
\* the default
BatchLimits == {-1, 1, MAX_EMAILS_PER_BATCH}

\* An unread email of the inbox: its id, whether fetching and parsing it
\* works, and what the classification completion does for it.
Email(id, fetched, out) == [id |-> id, fetched |-> fetched, out |-> out]

EmailKinds ==
    { [fetched |-> TRUE, out |-> JsonOutput(TRUE, EmailFields, TRUE, SalesClassification)],
      [fetched |-> TRUE, out |-> JsonOutput(FALSE, {}, FALSE, SalesClassification)],
      [fetched |-> TRUE, out |-> CompletionRaised(SalesClassification)],
      [fetched |-> FALSE, out |-> CompletionRaised(SalesClassification)] }

\* the inboxes of n unread emails, ids 1..n in the order the search returns
InboxesOf(n) ==
    { [i \in 1..n |-> Email(i, kinds[i].fetched, kinds[i].out)] :
          kinds \in [1..n -> EmailKinds] }

\* inboxes longer than the default limit: n emails, of one kind up to the
\* default limit and of one kind after it
LongInboxesOf(n) ==
    { [i \in 1..n |->
          IF i <= MAX_EMAILS_PER_BATCH THEN Email(i, first.fetched, first.out)
          ELSE Email(i, rest.fetched, rest.out)] :
          first \in EmailKinds, rest \in EmailKinds }

\* email_ids[:limit]: the first limit ids; for a negative limit, all but the
\* last -limit ids
SliceTo(email_ids, limit) ==
    IF limit >= 0 THEN SubSeq(email_ids, 1, Min(limit, Len(email_ids)))
    ELSE IF Len(email_ids) + limit > 0 THEN SubSeq(email_ids, 1, Len(email_ids) + limit)
    ELSE <<>>

RECURSIVE ProcessBatch(_)
\* the loop over email_ids: an email whose fetch or parse raises is logged and
\* passed over, the others are classified and appended
ProcessBatch(emails) ==
    IF emails = <<>> THEN <<>>
    ELSE LET e == Head(emails)
             rest == ProcessBatch(Tail(emails))
         IN  IF e.fetched
             THEN <<[id |-> e.id,
                     classification |-> _classify_email(EmailDataKeys, e.out)]>> \o rest
             ELSE rest

\* process_emails: connect, search, the loop over the first limit ids, close;
\* an exception outside the loop is logged and raised again
process_emails(faults, inbox, limit) ==
    LET input == [inbox |-> inbox, limit |-> limit]
    IN  IF faults # {} THEN Raise("process_emails", faults, input)
        ELSE LET processed_emails == ProcessBatch(SliceTo(inbox, limit))
             IN  Return("process_emails", faults, input,
                        [count |-> Len(processed_emails), emails |-> processed_emails])

\* ---- CallProcessor
SummaryFields == {"summary", "key_points", "action_items", "sentiment"}

\* CallSummary(...) of the except branch of _summarize_transcription
DefaultSummary ==
    [summary |-> "Call transcription completed but summarization failed.",
     key_points |-> <<"Transcription available for manual review">>,
     action_items |-> <<"Review transcription manually">>,
     sentiment |-> "neutral", duration |-> 0]

BillingSummary ==
    [summary |-> "The customer asked about an invoice.",
     key_points |-> <<"Invoice sent twice">>,
     action_items |-> <<"Refund the second invoice">>,
     sentiment |-> "negative", duration |-> 0]

SummaryOutputs ==
    { JsonOutput(TRUE, SummaryFields, TRUE, BillingSummary),
      JsonOutput(TRUE, SummaryFields \ {"action_items"}, TRUE, BillingSummary),
      JsonOutput(TRUE, SummaryFields, FALSE, BillingSummary),
      JsonOutput(FALSE, {}, FALSE, BillingSummary),
      CompletionRaised(BillingSummary) }

\* a key that is absent reads as empty
CallSummary_NoValidation(keys, typed, data) ==
    [raised |-> FALSE, value |-> data]

\* summary_data["summary"], ... and CallSummary(...): a KeyError for a key
\* that is absent, a validation error for a value of the wrong type
CallSummary(keys, typed, data) ==
    IF SummaryFields \subseteq keys /\ typed
    THEN [raised |-> FALSE, value |-> [data EXCEPT !.duration = 0]]
    ELSE [raised |-> TRUE, value |-> data]

\* _classify_call: the label, "general" when the completion raises
_classify_call(faults) ==
    IF "classify" \in faults THEN "general" ELSE "billing"

\* _summarize_transcription: the summary, the default one when the completion,
\* json.loads, a key or the validation raises
_summarize_transcription(faults, out) ==
    LET call_type == _classify_call(faults)
    IN  IF out.raised \/ ~out.json THEN DefaultSummary
        ELSE LET summary == CallSummary(out.keys, out.typed, out.data)
             IN  IF summary.raised THEN DefaultSummary ELSE summary.value

\* the points at which transcribe_audio can raise: no Whisper model was
\* loaded, the audio file is missing, Whisper raises, reading the duration
\* raises
TranscribeFaults == {"no_model", "no_file", "transcribe", "duration"}

\* what _preprocess_audio does: the file needs no conversion, it is converted
\* into a temporary file, reading it raises, exporting the conversion raises
Preprocessings == {"unchanged", "converted", "read_failed", "export_failed"}

\* result["text"] of Whisper
WhisperOutputs == {Raw(TRUE, "I was billed twice.")}

\* transcribe_audio: the stripped transcription; any exception is logged and
\* raised again.  temp tells whether a temporary file is left behind.
transcribe_audio(faults, preprocessing, out) ==
    LET input == [preprocessing |-> preprocessing,
                  temp |-> IF faults \cap {"no_model", "no_file"} # {} THEN FALSE
                           ELSE IF preprocessing = "export_failed" THEN TRUE
                           ELSE preprocessing = "converted"
                                    /\ faults \cap {"transcribe", "duration"} # {}]
    IN  IF faults # {} THEN Raise("transcribe_audio", faults, input)
        ELSE Return("transcribe_audio", faults, input, Strip(out))

\* summarize_call: transcribe_audio then _summarize_transcription; an
\* exception of the transcription is logged and raised again
summarize_call(faults, preprocessing, out, summary_out) ==
    LET transcription == transcribe_audio(faults \cap TranscribeFaults, preprocessing, out)
    IN  IF transcription.outcome = "raised"
        THEN Raise("summarize_call", faults, transcription.input)
        ELSE Return("summarize_call", faults, transcription.input,
                    _summarize_transcription(faults, summary_out))

\* An audio file handed to process_call_batch: its name, whether
\* validate_audio_file accepts it, the point at which its transcription
\* raises, what preprocessing does, and what the summary completion returns.
AudioFile(file, valid, faults, preprocessing, summary_out) ==
    [file |-> file, valid |-> valid, faults |-> faults,
     preprocessing |-> preprocessing, summary_out |-> summary_out]

AudioKinds ==
    { [valid |-> FALSE, faults |-> {}, preprocessing |-> "unchanged",
       summary_out |-> JsonOutput(TRUE, SummaryFields, TRUE, BillingSummary)],
      [valid |-> TRUE, faults |-> {"transcribe"}, preprocessing |-> "converted",
       summary_out |-> JsonOutput(TRUE, SummaryFields, TRUE, BillingSummary)],
      [valid |-> TRUE, faults |-> {"no_model"}, preprocessing |-> "unchanged",
       summary_out |-> JsonOutput(TRUE, SummaryFields, TRUE, BillingSummary)],
      [valid |-> TRUE, faults |-> {}, preprocessing |-> "converted",
       summary_out |-> JsonOutput(TRUE, SummaryFields, TRUE, BillingSummary)],
      [valid |-> TRUE, faults |-> {}, preprocessing |-> "unchanged",
       summary_out |-> JsonOutput(FALSE, {}, FALSE, BillingSummary)],
      [valid |-> TRUE, faults |-> {}, preprocessing |-> "unchanged",
       summary_out |-> CompletionRaised(BillingSummary)] }

\* the lists of n audio files, named by their position
BatchesOf(n) ==
    { [i \in 1..n |-> AudioFile(i, kinds[i].valid, kinds[i].faults,
                                kinds[i].preprocessing, kinds[i].summary_out)] :
          kinds \in [1..n -> AudioKinds] }

\* str(e) of the exception transcribe_audio raised
ExceptionText(faults) == CHOOSE f \in faults : TRUE

\* the body of the loop of process_call_batch: the entry appended for one file
CallResult(audio_file) ==
    IF ~audio_file.valid
    THEN [file |-> audio_file.file, status |-> "error",
          message |-> "Unsupported audio format"]
    ELSE LET transcription == transcribe_audio(audio_file.faults,
                                               audio_file.preprocessing,
                                               Raw(TRUE, "I was billed twice."))
         IN  IF transcription.outcome = "raised"
             THEN [file |-> audio_file.file, status |-> "error",
                   message |-> ExceptionText(audio_file.faults)]
             ELSE [file |-> audio_file.file, status |-> "success",
                   transcription |-> transcription.result,
                   summary |-> _summarize_transcription({}, audio_file.summary_out)]

RECURSIVE BatchResults(_)
\* the loop over audio_files
BatchResults(audio_files) ==
    IF audio_files = <<>> THEN <<>>
    ELSE <<CallResult(Head(audio_files))>> \o BatchResults(Tail(audio_files))

\* the first failure ends the batch
process_call_batch_StopsAtError(audio_files) ==
    LET results == BatchResults(audio_files)
        errors == {i \in 1..Len(results) : results[i].status = "error"}
    IN  Return("process_call_batch", {}, audio_files,
               IF errors = {} THEN results
               ELSE SubSeq(results, 1, CHOOSE i \in errors : \A j \in errors : i <= j))

\* process_call_batch: one entry per file; the exception of a file is caught
\* inside the loop
process_call_batch(audio_files) ==
    Return("process_call_batch", {}, audio_files, BatchResults(audio_files))

\* ---- ElevenLabsVoiceAgent
\* the points at which synthesize_speech can raise: no API key is configured,
\* requests.post raises, the response has an error status
SpeechFaults == {"no_api_key", "post", "status"}

\* synthesize_speech: response.content; any exception is logged and raised
\* again
synthesize_speech(faults) ==
    IF faults # {} THEN Raise("synthesize_speech", faults, <<>>)
    ELSE Return("synthesize_speech", faults, <<>>, "audio")

\* ---- calls of these operations
\* one call meets no fault or one of the faults it can meet
AtMostOne(points) == {{}} \cup {{f} : f \in points}

InitServices ==
    /\ files = KnowledgeBase(Missing, Missing, Missing)
    /\ vectorstore = None
    /\ loads = 1
    /\ adds = 0
    /\ last_add = NoAdd
    /\ req = [r \in Requests |-> IdleRequest]
    /\ probe = NoProbe
    /\ load = NoLoad
    /\ call = NoCall

SynthesizeSpeech ==
    /\ \E faults \in AtMostOne(SpeechFaults) : call' = synthesize_speech(faults)
    /\ UNCHANGED <<files, vectorstore, loads, adds, last_add, req, probe, load>>

TranscribeAudio ==
    /\ \E faults \in AtMostOne(TranscribeFaults), preprocessing \in Preprocessings,
          out \in WhisperOutputs :
           call' = transcribe_audio(faults, preprocessing, out)
    /\ UNCHANGED <<files, vectorstore, loads, adds, last_add, req, probe, load>>

SummarizeCall ==
    /\ \E faults \in AtMostOne(TranscribeFaults), classify \in SUBSET {"classify"},
          preprocessing \in Preprocessings, out \in WhisperOutputs,
          summary_out \in SummaryOutputs :
           call' = summarize_call(faults \cup classify, preprocessing, out, summary_out)
    /\ UNCHANGED <<files, vectorstore, loads, adds, last_add, req, probe, load>>

SummarizeTranscription ==
    /\ \E faults \in SUBSET {"classify"}, out \in SummaryOutputs :
           call' = Return("_summarize_transcription", faults, out,
                          _summarize_transcription(faults, out))
    /\ UNCHANGED <<files, vectorstore, loads, adds, last_add, req, probe, load>>

ProcessCallBatch ==
    /\ \E n \in 0..MaxBatch : \E audio_files \in BatchesOf(n) :
           call' = process_call_batch(audio_files)
    /\ UNCHANGED <<files, vectorstore, loads, adds, last_add, req, probe, load>>

ProcessEmails ==
    /\ \E faults \in AtMostOne(ServerFaults), n \in 0..MaxInbox, limit \in BatchLimits :
           \E inbox \in InboxesOf(n) \cup LongInboxesOf(MAX_EMAILS_PER_BATCH + n) :
               call' = process_emails(faults, inbox, limit)
    /\ UNCHANGED <<files, vectorstore, loads, adds, last_add, req, probe, load>>

ClassifyEmail ==
    /\ \E email_data \in EmailData, out \in ClassificationOutputs :
           call' = Return("_classify_email", {},
                          [email_data |-> email_data, out |-> out],
                          _classify_email(email_data, out))
    /\ UNCHANGED <<files, vectorstore, loads, adds, last_add, req, probe, load>>

DraftReply ==
    /\ \E email_data \in EmailData, out \in ClassificationOutputs,
          faults \in SUBSET {"reply"}, reply \in ReplyOutputs :
           call' = draft_reply(email_data, out, faults, reply)
    /\ UNCHANGED <<files, vectorstore, loads, adds, last_add, req, probe, load>>

NextServices ==
    \/ SynthesizeSpeech
    \/ TranscribeAudio
    \/ SummarizeCall
    \/ SummarizeTranscription
    \/ ProcessCallBatch
    \/ ProcessEmails
    \/ ClassifyEmail
    \/ DraftReply

SpecServices == InitServices /\ [][NextServices]_vars

\* ------------------------------------------------------------------ claims
Returned(rq) == rq.pc \in {"done", "failed"}

\* C1 as stated: a request in which a step other than classification raised
\* returns exactly the error response.
C1_AnyRaiseFails ==
    \A r \in Requests :
        (Returned(req[r]) /\ req[r].raised \ {"classify"} # {})
            => req[r].response = ErrorResponse

\* C1 amended: a request whose answer completion raised ends failed, and the
\* failed state returns exactly {apology, 0.0, "error", []}; a search that
\* raises is caught where it is made (the retrieval gives the request the
\* context "Error retrieving relevant information.", the related-questions
\* step gives []) and the request goes on to done with source
\* "knowledge_base".
C1_CompletionRaiseFails ==
    \A r \in Requests :
        LET rq == req[r]
        IN  /\ "complete" \in rq.raised => rq.pc = "failed"
            /\ rq.pc = "failed" => (rq.response = ErrorResponse /\ "complete" \in rq.raised)
            /\ rq.pc = "done" =>
                   /\ rq.response.source = "knowledge_base"
                   /\ "retrieve" \in rq.raised => rq.relevant_context = RetrievalError
                   /\ "related" \in rq.raised => rq.response.related_questions = <<>>

C1_Witness ==
    \E r \in Requests :
        /\ req[r].pc = "failed"
        /\ req[r].raised = {"classify", "retrieve", "complete"}
        /\ req[r].response = ErrorResponse

\* C2: when the answer completion raises, answer_question returns (it does
\* not raise) a response with confidence 0.0, source "error" and no related
\* questions, whatever the question, the caller context and the index.
C2_CompletionRaiseReturnsError ==
    \A r \in Requests :
        "complete" \in req[r].raised =>
            /\ req[r].pc = "failed"
            /\ req[r].response.confidence = 0
            /\ req[r].response.source = "error"
            /\ req[r].response.related_questions = <<>>

C2_Witness ==
    \E r \in Requests :
        /\ "complete" \in req[r].raised
        /\ req[r].retrieved_from # None
        /\ req[r].raised = {"complete"}
        /\ ~IsEmpty(req[r].context)
        /\ req[r].response.source = "error"

\* C3: every response has its confidence in [0.0, 0.9], and a request that
\* found no index (vectorstore None when it retrieved) and did not fail
\* returns confidence exactly 0.3.
C3_ConfidenceRange ==
    \A r \in Requests :
        /\ Returned(req[r]) => req[r].response.confidence \in 0..90
        /\ (req[r].pc = "done" /\ req[r].retrieved_from = None)
               => req[r].response.confidence = 30

C3_Witness ==
    \E r \in Requests :
        /\ req[r].pc = "done"
        /\ req[r].retrieved_from = None
        /\ req[r].response.confidence = 30
        /\ adds > 0

\* C4: without an index the request still asks the completion service, with
\* the placeholder "No knowledge base available." as retrieved context, and
\* returns the completion's text, confidence 0.3 and source "knowledge_base".
C4_EmptyKnowledgeBaseAnswers ==
    \A r \in Requests :
        LET rq == req[r]
        IN  (rq.pc \in {"retrieved", "answered", "done"} /\ rq.retrieved_from = None) =>
                /\ rq.relevant_context = NoKnowledgeBase
                /\ rq.full_context = FullContext(rq.context, NoKnowledgeBase)
                /\ rq.pc = "done" =>
                       /\ rq.answer \in AnswerOutputs
                       /\ rq.response.answer = rq.answer.text
                       /\ rq.response.answer # Apology
                       /\ rq.response.confidence = 30
                       /\ rq.response.source = "knowledge_base"

C4_Witness ==
    \E r \in Requests :
        /\ req[r].pc = "done"
        /\ req[r].retrieved_from = None
        /\ req[r].answer.pad
        /\ req[r].response.source = "knowledge_base"

\* C5: every response, done or failed, has at most 3 related questions and
\* each of them contains a '?'.
C5_RelatedQuestionsBounded ==
    \A r \in Requests :
        Returned(req[r]) =>
            LET related == req[r].response.related_questions
            IN  /\ Len(related) <= 3
                /\ \A i \in 1..Len(related) : related[i].q

C5_Witness ==
    \E r \in Requests :
        /\ req[r].pc = "done"
        /\ Len(req[r].response.related_questions) = 3
        /\ Len(req[r].related_from.chunks) > 3

\* the confidence of section 4.5, in units of 1e-6 and then in hundredths
ReferenceConfidence(question_words, context_words, no_context) ==
    IF no_context THEN 30
    ELSE LET linear == 500000 + 400 * context_words
             base == IF linear < 900000 THEN linear ELSE 900000
             adjusted == IF question_words > 10 THEN (base \div 10) * 9 ELSE base
         IN  (adjusted + 5000) \div 10000

ProbeDone == probe.confidence >= 0

\* C6: _calculate_confidence equals the reference function for every question
\* and context of bounded word counts.
C6_ConfidenceIsReference ==
    ProbeDone =>
        probe.confidence =
            ReferenceConfidence(WordCount(probe.question), WordCount(probe.context),
                                probe.context \in {EmptyText, NoKnowledgeBase})

C6_Witness ==
    /\ ProbeDone
    /\ WordCount(probe.question) = 11
    /\ WordCount(probe.context) = 125
    /\ probe.confidence = 50

\* C7: for a question of at most 10 words, the confidence does not decrease
\* when the context (not empty, not the placeholder) gets more words, and it
\* is at most 0.9.
C7_ConfidenceMonotone ==
    (ProbeDone /\ WordCount(probe.question) <= 10 /\ probe.context \in RegularContexts) =>
        /\ probe.confidence <= 90
        /\ \A c2 \in {BlankText, RetrievalError} :
               WordCount(probe.context) <= WordCount(c2) =>
                   probe.confidence <= _calculate_confidence(probe.question, c2)
        /\ \A n \in WordCount(probe.context)..MaxContextWords :
               n >= 1 =>
                   probe.confidence <= _calculate_confidence(probe.question, WordsText(n))

C7_Witness ==
    /\ ProbeDone
    /\ WordCount(probe.question) = 10
    /\ WordCount(probe.context) > 1000
    /\ probe.confidence = 90

\* C8: on one context (not empty, not the placeholder) a question of more than
\* 10 words gets a strictly lower confidence than a question of at most 10
\* words: the rounding of 0.9 times the latter's unrounded base.
C8_LongQuestionLower ==
    (ProbeDone /\ WordCount(probe.question) > 10 /\ probe.context \in RegularContexts) =>
        \A q2 \in ProbeQuestions :
            WordCount(q2) <= 10 =>
                /\ probe.confidence < _calculate_confidence(q2, probe.context)
                /\ probe.confidence =
                       Round2((ComplexityAdjusted(q2, BaseConfidence(probe.context)) * 9)
                              \div 10)

C8_Witness ==
    /\ ProbeDone
    /\ WordCount(probe.question) = 11
    /\ WordCount(probe.context) = 1000
    /\ probe.confidence = 81

\* C9 as stated: once add_faq_entry has written the entry, reloaded and
\* returned True, the index holds a chunk with the entry and some k=1 search
\* returns that chunk.
C9_AddedEntryRetrievable ==
    last_add.returned = "True" =>
        /\ vectorstore # None
        /\ \E docs \in SimilaritySearch(vectorstore, 1) : docs = <<last_add.entry>>

\* C10: when the index a request reads holds at most 3 chunks and no call of
\* the request fails, every chunk of the index is among the retrieved top-3,
\* and the returned confidence is above 0.3.
C10_SmallIndexFullyRetrieved ==
    \A r \in Requests :
        LET rq == req[r]
            index == rq.retrieved_from
        IN  (/\ rq.pc \in {"retrieved", "answered", "done"}
             /\ index # None
             /\ Len(index.chunks) <= 3
             /\ rq.raised = {}) =>
                /\ \A i \in 1..Len(index.chunks) :
                       \E j \in 1..Len(rq.docs) : rq.docs[j] = index.chunks[i]
                /\ rq.pc = "done" => rq.response.confidence > 30

C10_Witness ==
    \E r \in Requests :
        /\ req[r].pc = "done"
        /\ req[r].raised = {}
        /\ req[r].retrieved_from.chunks = <<HoursEntry>>
        /\ req[r].question = ShortQuestion
        /\ req[r].docs = <<HoursEntry>>
        /\ req[r].response.confidence = 51

\* C11 as stated: no operation of the pipelines lets a failure of a remote
\* service reach its caller.
C11_NeverReraised == call.outcome # "raised"

\* C11 amended: draft_reply returns, with the fixed fallback reply when its
\* reply completion raises, and process_emails passes over an email whose
\* fetch fails; synthesize_speech, transcribe_audio, summarize_call (for a
\* failure of the transcription) and process_emails (for a failure of the
\* mail server outside the loop over emails) raise the failure to the caller,
\* and return when no such failure occurs.
C11_CaughtOrReraised ==
    /\ call.op = "draft_reply" =>
           /\ call.outcome = "returned"
           /\ "reply" \in call.faults => call.result = DraftFallback
    /\ call.op \in {"synthesize_speech", "transcribe_audio", "process_emails"} =>
           (call.outcome = "raised" <=> call.faults # {})
    /\ call.op = "summarize_call" =>
           (call.outcome = "raised" <=> call.faults \cap TranscribeFaults # {})
    /\ (call.op = "process_emails" /\ call.outcome = "returned") =>
           /\ call.result.count = Len(call.result.emails)
           /\ \A i \in 1..Len(call.result.emails) :
                  call.input.inbox[call.result.emails[i].id].fetched

C11_Witness ==
    /\ call.op = "draft_reply"
    /\ call.input = EmailDataKeys
    /\ "reply" \in call.faults
    /\ call.result = DraftFallback

\* a completion that returned text which is not JSON, or a JSON object that
\* lacks one of the fields
Malformed(out, fields) == ~out.raised /\ (~out.json \/ ~(fields \subseteq out.keys))

\* C14: when the completion returns text that is not JSON, or JSON without a
\* required field, _classify_email returns the default classification
\* (support, priority 3, neutral, action required) and
\* _summarize_transcription returns the default summary; neither raises.
C14_MalformedGivesDefault ==
    /\ call.op \in {"_classify_email", "_summarize_transcription"} =>
           call.outcome = "returned"
    /\ (call.op = "_classify_email" /\ Malformed(call.input.out, EmailFields)) =>
           /\ call.result = DefaultClassification
           /\ call.result.category = "support" /\ call.result.priority = 3
           /\ call.result.sentiment = "neutral" /\ call.result.action_required
    /\ (call.op = "_summarize_transcription" /\ Malformed(call.input, SummaryFields)) =>
           call.result = DefaultSummary

C14_Witness ==
    /\ call.op = "_classify_email"
    /\ call.input.email_data = EmailDataKeys
    /\ call.input.out.json
    /\ "priority" \notin call.input.out.keys
    /\ call.outcome = "returned"
    /\ call.result = DefaultClassification

\* the order of the steps of one request
StepOrder ==
    { <<"received", "classified">>, <<"classified", "retrieved">>,
      <<"retrieved", "answered">>, <<"answered", "done">>,
      <<"retrieved", "failed">> }

\* what a request holds at each step
StepsBehind(rq) ==
    /\ rq.pc \in {"retrieved", "answered", "done", "failed"} =>
           (rq.question_type # "" /\ rq.retrieved_from # NotRead)
    /\ rq.pc \in {"idle", "received", "classified"} => rq.retrieved_from = NotRead
    /\ rq.pc \in {"answered", "done"} => rq.answer \in AnswerOutputs
    /\ rq.pc = "done" <=> rq.related_from # NotRead
    /\ rq.pc \in {"done", "failed"} <=> rq.response # NoResponse

\* C12: a request goes received, classified, retrieved, answered, done in
\* that order, or from retrieved to failed: the classification is there
\* before the retrieval, the retrieval before the completion, and the
\* confidence and the related questions (the response) only after the
\* completion returned; a request that failed takes no further step, the slot
\* is only taken again by a new call.
C12_StepsInOrder ==
    [][\A r \in Requests :
           /\ StepsBehind(req'[r])
           /\ req'[r].pc # req[r].pc =>
                  \/ <<req[r].pc, req'[r].pc>> \in StepOrder
                  \/ /\ req[r].pc \in {"idle", "done", "failed"}
                     /\ \E question \in Questions, context \in Contexts :
                            req'[r] = NewRequest(question, context)
           /\ req[r].pc = "failed" => (req'[r] = req[r] \/ req'[r].pc = "received")]_vars

C12_Witness ==
    \E r \in Requests :
        /\ req[r].pc = "done"
        /\ req[r].raised = {}
        /\ req[r].question_type = "billing"
        /\ req[r].retrieved_from # None
        /\ req[r].answer \in AnswerOutputs
        /\ req[r].related_from # None

\* C13: a request whose classification call raised has the label "general"
\* and goes on to the retrieval; it fails only if its completion raises too.
C13_ClassifyFailureDefaults ==
    \A r \in Requests :
        "classify" \in req[r].raised =>
            /\ req[r].question_type = "general"
            /\ req[r].pc \in {"classified", "retrieved", "answered", "done", "failed"}
            /\ req[r].pc = "classified" => ENABLED Retrieve(r)
            /\ req[r].pc = "failed" => "complete" \in req[r].raised

C13_Witness ==
    \E r \in Requests :
        /\ req[r].pc = "done"
        /\ req[r].raised = {"classify"}
        /\ req[r].question_type = "general"
        /\ req[r].response.source = "knowledge_base"

\* C15 as stated: the two searches of one request read the same index,
\* whatever add_faq_entry does in between.
C15_SameIndexForBothSearches ==
    \A r \in Requests :
        req[r].pc = "done" => req[r].related_from = req[r].retrieved_from

\* the sentences of one chunk that qualify as related questions
Qualifying(content) ==
    SelectSeq(content, LAMBDA sentence : sentence.q /\ Len(sentence.txt) > MinSentenceLen)

RECURSIVE QualifyingOf(_)
\* the qualifying sentences of the chunks, in chunk order then sentence order
QualifyingOf(docs) ==
    IF docs = <<>> THEN <<>> ELSE Qualifying(Head(docs)) \o QualifyingOf(Tail(docs))

FirstQualifying(docs) ==
    LET all == QualifyingOf(docs) IN SubSeq(all, 1, Min(MaxRelated, Len(all)))

\* C19: the related questions are the first up to three qualifying sentences
\* (a '.'-separated piece with a '?' and a stripped length above 10) of the
\* five nearest chunks, in chunk order then sentence order: for every search
\* the index can answer, and in every response returned.
C19_RelatedAreFirstQualifying ==
    /\ \A search \in SearchOutcomes(vectorstore, RelatedK) :
           (vectorstore # None /\ search.ok) =>
               _get_related_questions(vectorstore, search) = FirstQualifying(search.docs)
    /\ \A r \in Requests :
           (req[r].pc = "done" /\ req[r].related_from # None
                /\ "related" \notin req[r].raised) =>
               \E docs \in SimilaritySearch(req[r].related_from, RelatedK) :
                   req[r].response.related_questions = FirstQualifying(docs)

C19_Witness ==
    \E r \in Requests :
        /\ req[r].pc = "done"
        /\ Len(req[r].related_from.chunks) >= 4
        /\ req[r].response.related_questions =
               <<HoursEntry[1], SupportBlock[1], SupportBlock[3]>>

\* what the prompt context has to be, piece by piece
IsContextThenRetrieved(full, context, retrieved) ==
    LET n == Len(context)
        last == context[n]
        first == retrieved[1]
    IN  /\ Len(full) = n + Len(retrieved) - 1
        /\ \A i \in 1..(n - 1) : full[i] = context[i]
        /\ \A j \in 2..Len(retrieved) : full[n + j - 1] = retrieved[j]
        /\ full[n].words = last.words + first.words
        /\ full[n].q = (last.q \/ first.q)
        /\ (last.txt # "" /\ first.txt # "") =>
               full[n].txt = last.txt \o "\n\n" \o first.txt
        /\ last.txt = "" => full[n].txt = first.txt
        /\ first.txt = "" => full[n].txt = last.txt

\* C20: the context given to the answer prompt is the caller's context, a
\* blank line, and the retrieved context when the caller's context is not
\* empty, and the retrieved context alone when it is empty.
C20_PromptContext ==
    \A r \in Requests :
        req[r].pc \in {"retrieved", "answered", "done", "failed"} =>
            IF req[r].context = EmptyText
            THEN req[r].full_context = req[r].relevant_context
            ELSE IsContextThenRetrieved(req[r].full_context, req[r].context,
                                        req[r].relevant_context)

C20_Witness ==
    \E r \in Requests :
        /\ req[r].pc = "answered"
        /\ req[r].context = OrderContext
        /\ req[r].relevant_context = JoinTexts(<<HoursEntry, ProductsBlock>>, "\n\n")
        /\ req[r].full_context[1].txt =
               "My order number is 1234\n\n" \o HoursEntry[1].txt

\* C16: every request that was received reaches done or failed, given that
\* each remote call it awaits returns or raises.
C16_EveryRequestReturns ==
    \A r \in Requests :
        (req[r].pc = "received") ~> (req[r].pc \in {"done", "failed"})

C16_Witness ==
    \E r \in Requests :
        /\ req[r].pc = "done"
        /\ req[r].raised = {"classify", "retrieve", "related"}
        /\ adds = MaxAdds

\* response is one answer_question can return for a question and no caller
\* context when it runs alone over the index vs
IsSoloResponse(response, question, vs) ==
    \/ response = ErrorResponse
    \/ /\ response.source = "knowledge_base"
       /\ \E out \in AnswerOutputs : response.answer = Strip(out)
       /\ \E retrieval \in SearchOutcomes(vs, ChunkK) :
              response.confidence =
                  _calculate_confidence(question, _get_relevant_context(vs, retrieval))
       /\ \E related \in SearchOutcomes(vs, RelatedK) :
              response.related_questions = _get_related_questions(vs, related)

\* C17: answer_question does not write the index: with requests running side
\* by side and no add_faq_entry, no step changes self.vectorstore or the
\* files, a step of one request leaves the other request as it was, and what
\* a request returns is what it can return when it runs alone over that index.
C17_RequestsLeaveIndexAlone ==
    [][/\ vectorstore' = vectorstore
       /\ files' = files
       /\ loads' = loads
       /\ \A r \in ConcurrentRequests :
              /\ req'[r] # req[r] =>
                     \A other \in ConcurrentRequests \ {r} : req'[other] = req[other]
              /\ (req'[r] # req[r] /\ Returned(req'[r])) =>
                     /\ IsSoloResponse(req'[r].response, req'[r].question, vectorstore)
                     /\ req'[r].retrieved_from = vectorstore
                     /\ req'[r].pc = "done" => req'[r].related_from = vectorstore]_vars

C17_Witness ==
    /\ vectorstore # None
    /\ req["r1"].pc = "done"
    /\ req["r1"].question = LongQuestion
    /\ req["r2"].pc = "answered"
    /\ req["r2"].question = ShortQuestion
    /\ req["r1"].docs # req["r2"].docs

\* vs is what a whole load_knowledge_base over the files fs leaves
IsCompleteIndex(vs, fs) ==
    vs = None \/ \E fault \in Faults : vs = BuildIndex(fs, fault, vs.id)

\* the files as they were before the entry being loaded was appended
FilesBefore ==
    [files EXCEPT ![FaqFile] =
        File(SubSeq(@.blocks, 1, Len(@.blocks) - 1))]

\* the files as they were at some earlier time: entries are only ever appended
EarlierFiles ==
    { [files EXCEPT ![FaqFile] = File(SubSeq(@.blocks, 1, n))] :
          n \in 0..Len(files[FaqFile].blocks) }

\* C18: while load_knowledge_base runs, self.vectorstore is the index it
\* held before (complete for the files before the add, or None); when the
\* load is over it is the complete index of the files, or None; and what a
\* request read is the complete index of the files of some earlier time, or
\* None, never an index of part of the files.
C18_IndexReplacedWhole ==
    /\ load.pc # "idle" =>
           (vectorstore = load.before /\ IsCompleteIndex(vectorstore, FilesBefore))
    /\ load.pc = "idle" => IsCompleteIndex(vectorstore, files)
    /\ \A r \in Requests :
           \A read \in {req[r].retrieved_from, req[r].related_from} \ {NotRead} :
               \E fs \in EarlierFiles : IsCompleteIndex(read, fs)

C18_Witness ==
    /\ load.pc = "embed"
    /\ vectorstore # None
    /\ Len(load.splits) > Len(vectorstore.chunks)
    /\ \E r \in Requests :
           /\ req[r].pc = "retrieved"
           /\ req[r].retrieved_from = vectorstore

\* the chunks of the files fs that exist and are not in skip, in the order of
\* faq_files
ChunksOf(fs, skip) ==
    (IF FaqFile \in skip THEN <<>> ELSE fs[FaqFile].blocks)
    \o (IF ProductsFile \in skip THEN <<>> ELSE fs[ProductsFile].blocks)
    \o (IF SupportFile \in skip THEN <<>> ELSE fs[SupportFile].blocks)

\* a load that meets no failure of makedirs, the splitter or the embeddings
Undisturbed(fault) == ~fault.mkdir /\ ~fault.split /\ ~fault.embed

\* C21: load_knowledge_base always returns (add_faq_entry goes on to return
\* True); a file that is missing, or that cannot be read, is passed over and
\* the chunks of the other files are indexed; when no document was loaded,
\* or no file exists at all, vectorstore is None, and a request over it still
\* returns, with confidence 0.3.
C21_LoadNeverRaises ==
    [][/\ (load.pc # "idle" /\ load'.pc = "idle") =>
              /\ last_add'.returned = "True"
              /\ Undisturbed(load.fault) =>
                     IF ChunksOf(files, load.fault.load) = <<>>
                     THEN vectorstore' = None
                     ELSE /\ vectorstore' # None
                          /\ vectorstore'.chunks = ChunksOf(files, load.fault.load)
              /\ (load.pc = "files" /\ load.documents = <<>>) => vectorstore' = None
       /\ (\A f \in {FaqFile, ProductsFile, SupportFile} : ~files'[f].exists) =>
              vectorstore' = None
       /\ \A r \in Requests :
              (req'[r].pc = "done" /\ req'[r].retrieved_from = None) =>
                  req'[r].response.confidence = DefaultConfidence]_vars

C21_Witness ==
    /\ load.pc = "idle"
    /\ adds = 1
    /\ last_add.returned = "True"
    /\ ~files[ProductsFile].exists
    /\ ~files[SupportFile].exists
    /\ vectorstore # None
    /\ Len(vectorstore.chunks) = 2

\* C22 as stated: when the splitter raises over the documents of a load that
\* read two files or more, the load still leaves an index.
C22_SplitFailureKeepsIndex ==
    [][(/\ load.pc = "files"
        /\ load'.pc = "idle"
        /\ load.fault.split
        /\ Len(load.documents) >= 2
        /\ \A i \in 1..Len(load.documents) : load.documents[i] # <<>>)
           => vectorstore' # None]_vars

\* C24: one request calls the completion service at most twice (to classify,
\* to answer) and similarity_search at most twice (top-3, top-5), whatever
\* raises; each step makes its call once, and a request whose answer
\* completion raised has made no call after it (no related-questions search).
C24_NoRetry ==
    \A r \in Requests :
        LET rq == req[r]
        IN  /\ rq.completions <= 2
            /\ rq.searches <= 2
            /\ rq.pc \in {"idle", "received"} => (rq.completions = 0 /\ rq.searches = 0)
            /\ rq.pc = "classified" => (rq.completions = 1 /\ rq.searches = 0)
            /\ rq.pc = "retrieved" => (rq.completions = 1 /\ rq.searches <= 1)
            /\ rq.pc = "answered" => (rq.completions = 2 /\ rq.searches <= 1)
            /\ rq.pc = "done" => rq.completions = 2
            /\ rq.pc = "failed" =>
                   /\ rq.completions = 2
                   /\ rq.searches <= 1
                   /\ rq.related_from = NotRead

C24_Witness ==
    \E r \in Requests :
        /\ req[r].pc = "failed"
        /\ req[r].raised = {"classify", "retrieve", "complete"}
        /\ req[r].completions = 2
        /\ req[r].searches = 1

\* C25: every response has source "knowledge_base" or "error"; the source is
\* "error" exactly when the confidence is 0.0; and a "knowledge_base"
\* response has confidence 0.3 or a value from 0.45 to 0.9.
C25_SourceAndConfidence ==
    \A r \in Requests :
        Returned(req[r]) =>
            LET response == req[r].response
            IN  /\ response.source \in {"knowledge_base", "error"}
                /\ response.source = "error" <=> response.confidence = 0
                /\ response.source = "knowledge_base" =>
                       (response.confidence = 30 \/ response.confidence \in 45..90)

C25_Witness ==
    \E r \in Requests :
        /\ req[r].pc = "done"
        /\ req[r].question = LongQuestion
        /\ req[r].relevant_context = RetrievalError
        /\ req[r].response.source = "knowledge_base"
        /\ req[r].response.confidence = 45

\* C27 as stated: when add_faq_entry has returned True, the processor holds
\* an index and the index holds the new entry.
C27_TrueMeansIndexed ==
    last_add.returned = "True" =>
        /\ vectorstore # None
        /\ \E i \in 1..Len(vectorstore.chunks) : vectorstore.chunks[i] = last_add.entry

\* C23: two runs with the same question, caller context, index, search
\* outcomes and answer completion return the same FAQResponse, whatever the
\* classification call did in each (any label, or a failure).
C23_LabelHasNoInfluence ==
    (/\ Returned(req["r1"])
     /\ Returned(req["r2"])
     /\ req["r1"].context = req["r2"].context)
        => req["r1"].response = req["r2"].response

C23_Witness ==
    /\ req["r1"].pc = "done"
    /\ req["r2"].pc = "done"
    /\ req["r1"].context = req["r2"].context
    /\ req["r1"].question_type = "technical"
    /\ req["r2"].question_type = "general"
    /\ "classify" \in req["r2"].raised
    /\ req["r1"].response = req["r2"].response
    /\ req["r1"].response.related_questions # <<>>

\* C26: two runs that differ only in the caller context (same question,
\* index, classification, search outcomes and answer completion) return the
\* same confidence and the same related questions.
C26_ContextOnlyInPrompt ==
    (/\ Returned(req["r1"])
     /\ Returned(req["r2"])
     /\ req["r1"].question_type = req["r2"].question_type
     /\ req["r1"].raised = req["r2"].raised)
        => /\ req["r1"].response.confidence = req["r2"].response.confidence
           /\ req["r1"].response.related_questions = req["r2"].response.related_questions

C26_Witness ==
    /\ req["r1"].pc = "done"
    /\ req["r2"].pc = "done"
    /\ req["r1"].context = EmptyText
    /\ req["r2"].context = OrderContext
    /\ req["r1"].question_type = req["r2"].question_type
    /\ req["r1"].raised = {}
    /\ req["r2"].raised = {}
    /\ req["r1"].full_context # req["r2"].full_context
    /\ req["r1"].response.confidence = req["r2"].response.confidence

\* C28: process_call_batch returns, with one entry per input file in input
\* order; an entry is "success" exactly when the file is accepted and its
\* transcription does not raise, "error" otherwise, and the files after a
\* failed one are still processed; a summary completion that raises or is
\* not JSON gives a "success" entry with the default summary.
C28_OneResultPerFile ==
    call.op = "process_call_batch" =>
        /\ call.outcome = "returned"
        /\ Len(call.result) = Len(call.input)
        /\ \A i \in 1..Len(call.input) :
               LET audio_file == call.input[i]
                   entry == call.result[i]
               IN  /\ entry.file = audio_file.file
                   /\ entry.status \in {"success", "error"}
                   /\ entry.status = "success" <=>
                          (audio_file.valid /\ audio_file.faults = {})
                   /\ (~audio_file.valid) =>
                          entry.message = "Unsupported audio format"
                   /\ (entry.status = "success"
                          /\ (audio_file.summary_out.raised \/ ~audio_file.summary_out.json)) =>
                          entry.summary = DefaultSummary
                   /\ (entry.status = "success"
                          /\ ~audio_file.summary_out.raised /\ audio_file.summary_out.json) =>
                          entry.summary = [BillingSummary EXCEPT !.duration = 0]

C28_Witness ==
    /\ call.op = "process_call_batch"
    /\ Len(call.input) = 2
    /\ call.input[1].valid
    /\ call.input[1].faults = {"transcribe"}
    /\ call.input[2].summary_out.raised
    /\ Len(call.result) = 2
    /\ call.result[1].status = "error"
    /\ call.result[2].status = "success"
    /\ call.result[2].summary = DefaultSummary

\* C29 as stated: when transcribe_audio returns or raises, no temporary
\* converted file is left behind.
C29_TempFileRemoved ==
    call.op = "transcribe_audio" => ~call.input.temp

\* C30 as stated: process_emails returns count equal to the number of
\* returned emails and at most the configured batch limit; an email whose
\* fetch fails is passed over, the emails after it are processed, and an
\* email whose classification fails carries the default classification.
C30_CountWithinLimit ==
    (call.op = "process_emails" /\ call.outcome = "returned") =>
        /\ call.result.count = Len(call.result.emails)
        /\ call.result.count <= call.input.limit
        /\ \A i \in 1..Len(call.result.emails) :
               LET e == call.input.inbox[call.result.emails[i].id]
               IN  /\ e.fetched
                   /\ (e.out.raised \/ ~e.out.json) =>
                          call.result.emails[i].classification = DefaultClassification

====
